---- MODULE Spec2Model ----
(***************************************************************************)
(* Model of the recommendation service of app.py: the result cache, the    *)
(* fallback retrieval chain of fetch_articles_from_api, the scoring of      *)
(* get_recommendations_by_interests, the POST /recommend-by-interests       *)
(* handler, and the keyword extractor extract_keywords.                     *)
(*                                                                         *)
(* Scores are fixed-point numbers in units of 1/ScoreScale.  Optional       *)
(* values are sequences: <<>> is Python's None and <<v>> is the value v.    *)
(***************************************************************************)
EXTENDS Integers, Sequences, FiniteSets, TLC

VARIABLES
    now,               \* the value time.time() returns, in seconds
    article_cache,     \* app.py article_cache: cache_key -> (cache_time, results)
    articles_df,       \* the catalog loaded by load_data (a sequence of rows)
    tfidf_vectorizer,  \* <<>> (None), <<"unfitted">> or <<rows it was fitted on>>
    tfidf_matrix,      \* <<>> (None) or <<the article ids of its rows>>
    NEWS_API_KEY,      \* TRUE when the environment sets a NewsAPI key
    GUARDIAN_API_KEY,  \* TRUE when the environment sets a Guardian key
    pc,                \* the position of the request being served
    call,              \* the entry point and the arguments of the request
    combined_results,  \* the local combined_results of fetch_articles_from_api
    api_results,       \* what fetch_articles_from_api returned to its caller
    attempts,          \* the sources attempted so far by the request
    failed,            \* the providers whose attempt raised or was refused
    source,            \* what supplied the list fetch returned ("none": not yet)
    lookup_age,        \* the age of the key's cache entry at the lookup (-1: none)
    request,           \* request.json of the POST being served
    returned,          \* <<>> or <<the list the entry point returned>>
    http_status,       \* the status of the HTTP response (0: none)
    raised,            \* TRUE when an exception left the entry point
    ncalls,            \* requests started so far
    nticks,            \* clock advances so far
    kw_text,           \* extract_keywords: the text, as its whitespace-separated words
    kw_max,            \* extract_keywords: max_keywords
    kw_out,            \* extract_keywords: <<>> or <<the returned list>>
    gemini_model,      \* generate_data.py: TRUE when init_gemini_model gave a model
    gen_pc,            \* generate_articles: "idle", "loop", "call" (in Gemini) or "end"
    article_id,        \* generate_articles: the article being generated
    attempt,           \* generate_content_with_gemini: the attempt in progress
    quota_exceeded,    \* generate_articles: its local flag
    quota_at,          \* the article during which Gemini reported the quota (0: none)
    articles           \* generate_articles: for each article, what produced it

vars == <<now, article_cache, articles_df, tfidf_vectorizer, tfidf_matrix,
          NEWS_API_KEY, GUARDIAN_API_KEY, pc, call, combined_results,
          api_results, attempts, failed, source, lookup_age, request, returned,
          http_status, raised, ncalls, nticks, kw_text, kw_max, kw_out,
          gemini_model, gen_pc, article_id, attempt, quota_exceeded, quota_at,
          articles>>

(***************************************************************************)
(* Bounds of the model.                                                     *)
(***************************************************************************)
MaxCalls == 2
MaxTicks == 2
MaxItems == 2
MaxResults == 1
MaxWords == 4
MaxKeywords == 3
MaxListLen == 17       \* items of a provider result handed to the scoring loop
NumArticles == 3       \* generate_articles(num_articles)

(***************************************************************************)
(* Program constants.                                                       *)
(***************************************************************************)
CACHE_DURATION == 3600
EndpointMaxResults == 10
RetryCount == 3
ScoreScale == 10000

None == <<>>
Some(v) == <<v>>

Min(a, b) == IF a < b THEN a ELSE b
Max(a, b) == IF a > b THEN a ELSE b

Range(s) == {s[i] : i \in 1..Len(s)}

(***************************************************************************)
(* Inputs.  Queries and category names are strings; a request's categories  *)
(* are a list, exactly as the JSON body gives it: unvalidated, in any       *)
(* order, possibly with repeats, possibly with names outside the five       *)
(* canonical ones.                                                          *)
(***************************************************************************)
Queries == {"ai research", "sports"}

CategoryLists ==
    { <<"Sports", "Technology">>,
      <<"Technology", "Sports">>,
      <<"Technology", "Science">>,
      <<"Science-Technology">> }

\* The category names of the inputs in the order Python's str comparison
\* gives them (code points: "Science" is a proper prefix of
\* "Science-Technology", "c" < "p" and "S" < "T").
CategoryOrder == <<"Science", "Science-Technology", "Sports", "Technology">>

StrRank(c) == CHOOSE i \in 1..Len(CategoryOrder) : CategoryOrder[i] = c

\* sorted(categories): insertion of each element after the elements that are
\* not greater than it.
RECURSIVE InsertSorted(_, _)
InsertSorted(c, s) ==
    IF s = <<>> THEN <<c>>
    ELSE IF StrRank(c) < StrRank(Head(s)) THEN <<c>> \o s
    ELSE <<Head(s)>> \o InsertSorted(c, Tail(s))

RECURSIVE sorted(_)
sorted(categories) ==
    IF categories = <<>> THEN <<>>
    ELSE InsertSorted(categories[Len(categories)],
                      sorted(SubSeq(categories, 1, Len(categories) - 1)))

\* sep.join(strs)
RECURSIVE join(_, _)
join(sep, strs) ==
    IF strs = <<>> THEN ""
    ELSE IF Len(strs) = 1 THEN strs[1]
    ELSE strs[1] \o sep \o join(sep, Tail(strs))

\* app.py line 80: f"{query}_{'-'.join(sorted(categories))}"
cache_key(query, categories) == query \o "_" \o join("-", sorted(categories))

\* app.py lines 95-101 and 150-156: the keys of category_mapping and of
\* section_mapping are the same five names.
category_mapping ==
    [c \in {"Technology", "Business", "Science", "Sports", "Lifestyle"} |->
        CASE c = "Technology" -> "technology"
          [] c = "Business" -> "business"
          [] c = "Science" -> "science"
          [] c = "Sports" -> "sports"
          [] c = "Lifestyle" -> "health"]

section_mapping ==
    [c \in {"Technology", "Business", "Science", "Sports", "Lifestyle"} |->
        CASE c = "Technology" -> "technology"
          [] c = "Business" -> "business"
          [] c = "Science" -> "science"
          [] c = "Sports" -> "sport"
          [] c = "Lifestyle" -> "lifeandstyle"]

\* [mapping[c] for c in categories if c in mapping]
RECURSIVE MappedCategories(_, _)
MappedCategories(mapping, categories) ==
    IF categories = <<>> THEN <<>>
    ELSE (IF Head(categories) \in DOMAIN mapping
             THEN <<mapping[Head(categories)]>> ELSE <<>>)
         \o MappedCategories(mapping, Tail(categories))

\* category_param / section_param: the first mapped name, or None.
category_param(mapping, categories) ==
    LET m == MappedCategories(mapping, categories)
    IN  IF m = <<>> THEN None ELSE Some(m[1])

\* mapping.get(c)
MappingGet(mapping, c) == IF c \in DOMAIN mapping THEN Some(mapping[c]) ELSE None

\* next((c for c in categories if mapping.get(c) == param), categories[0]):
\* the default categories[0] is evaluated first, so an empty list raises
\* IndexError.  <<>> stands for the raise, <<c>> for the value.
item_category(mapping, categories) ==
    IF categories = <<>> THEN None
    ELSE LET param == category_param(mapping, categories)
             hits == {i \in 1..Len(categories) :
                         MappingGet(mapping, categories[i]) = param}
         IN  IF hits = {} THEN Some(categories[1])
             ELSE Some(categories[CHOOSE i \in hits : \A j \in hits : i <= j])

(***************************************************************************)
(* The catalog (articles.csv as generate_data.py writes it: article_id,     *)
(* title, category, keywords) and the TF-IDF index over its keywords.       *)
(* A row's keywords are kept as the tokens TfidfVectorizer's token pattern  *)
(* finds in the comma-joined string.                                        *)
(***************************************************************************)
Catalog ==
    << [article_id |-> 1, category |-> "Technology", keywords |-> <<"ai", "cloud">>],
       [article_id |-> 2, category |-> "Sports", keywords |-> <<"sports", "league">>],
       [article_id |-> 3, category |-> "Technology", keywords |-> <<"ai", "research">>] >>

\* The tokens TfidfVectorizer finds in a query (token pattern \b\w\w+\b,
\* lower-cased; none of these is an English stop word).
QueryTokens(query) ==
    CASE query = "ai research" -> <<"ai", "research">>
      [] query = "sports" -> <<"sports">>

\* df[df['category'].isin(categories)]: the rows kept, in catalog order.
RECURSIVE isin_filter(_, _)
isin_filter(df, categories) ==
    IF df = <<>> THEN <<>>
    ELSE (IF Head(df).category \in Range(categories) THEN <<Head(df)>> ELSE <<>>)
         \o isin_filter(Tail(df), categories)

Count(tokens, t) == Cardinality({i \in 1..Len(tokens) : tokens[i] = t})

RECURSIVE SumOver(_, _)
SumOver(f, S) ==
    IF S = {} THEN 0
    ELSE LET t == CHOOSE x \in S : TRUE
         IN  f[t] + SumOver(f, S \ {t})

\* 1000 * ln(k), rounded, for k in 1..6.
LnMilli == <<0, 693, 1099, 1386, 1609, 1792>>

\* The vocabulary a fit on the rows `docs` learns.
Vocabulary(docs) == UNION {Range(docs[i].keywords) : i \in 1..Len(docs)}

\* sklearn's smoothed idf, ln((1 + n) / (1 + df)) + 1, in thousandths.
IdfMilli(docs, t) ==
    LET n == Len(docs)
        df == Cardinality({i \in 1..n : t \in Range(docs[i].keywords)})
    IN  1000 + LnMilli[1 + n] - LnMilli[1 + df]

\* The largest r with r * r <= x.
RECURSIVE ISqrtIn(_, _, _)
ISqrtIn(x, lo, hi) ==
    IF lo >= hi THEN lo
    ELSE LET mid == (lo + hi + 1) \div 2
         IN  IF mid * mid <= x THEN ISqrtIn(x, mid, hi) ELSE ISqrtIn(x, lo, mid - 1)

ISqrt(x) == ISqrtIn(x, 0, 46340)

\* cosine_similarity(transform([query]), fit_transform(docs))[row of `doc`],
\* in units of 1/ScoreScale: both vectors are tf * idf over the fitted
\* vocabulary; a zero vector gives 0.
Cosine(docs, qtokens, dtokens) ==
    LET V == Vocabulary(docs)
        w == [t \in V |-> (IdfMilli(docs, t) * IdfMilli(docs, t)) \div 1000]
        dot == SumOver([t \in V |-> Count(qtokens, t) * Count(dtokens, t) * w[t]], V)
        qq == SumOver([t \in V |-> Count(qtokens, t) * Count(qtokens, t) * w[t]], V)
        dd == SumOver([t \in V |-> Count(dtokens, t) * Count(dtokens, t) * w[t]], V)
    IN  IF qq = 0 \/ dd = 0 THEN 0
        ELSE Min(ScoreScale, (dot * ScoreScale) \div ISqrt(qq * dd))

\* cosine_similarities, indexed 0 .. rows-1 as the numpy array is.
cosine_similarities(docs, query) ==
    [idx \in 0..(Len(docs) - 1) |->
        Cosine(docs, QueryTokens(query), docs[idx + 1].keywords)]

\* The orders cosine_similarities.argsort()[::-1] can give: every index once,
\* scores never increasing; the order among equal scores is the sort's.
argsort_desc(cos) ==
    LET n == Cardinality(DOMAIN cos)
    IN  {p \in [1..n -> DOMAIN cos] :
            /\ \A i, j \in 1..n : i # j => p[i] # p[j]
            /\ \A i \in 1..n : \A j \in 1..n : i < j => cos[p[i]] >= cos[p[j]]}

\* seq[:k] for k >= 0
Prefix(seq, k) == SubSeq(seq, 1, Min(k, Len(seq)))

\* The row sets an index over Catalog can have been fitted on: the whole
\* catalog (train_model.py) or a categories-filtered part of it (app.py line
\* 326).  The two tables hold cosine_similarities and argsort_desc for them,
\* computed once.
FitSets == {Catalog} \cup ({isin_filter(Catalog, c) : c \in CategoryLists} \ {<<>>})

CosineTable ==
    [docs \in FitSets |-> [q \in Queries |-> cosine_similarities(docs, q)]]

OrderTable ==
    [docs \in FitSets |-> [q \in Queries |-> argsort_desc(CosineTable[docs][q])]]

(***************************************************************************)
(* Result items.  An item keeps the fields the properties read: the id, the *)
(* category, the score (-1: the dict has no 'similarity_score' key) and, as *)
(* history, the source that produced it.  title, keywords, url, snippet and *)
(* published_date are copied from the article and read by nothing here.     *)
(***************************************************************************)
Item(id, cat, src, score) ==
    [article_id |-> id, category |-> cat, source |-> src, similarity_score |-> score]

\* What a provider can answer to a GET asking for page size max_results:
\* "exception": requests.get raises (transport error); "status": a status
\* other than 200; "badjson": a 200 whose body is not the expected object;
\* "notok": a 200 whose body reports an error; "ok": a 200 with n articles,
\* of which article number `bad` (0: none) lacks a field the loop reads.
ProviderResponses(max_results) ==
    LET most == Min(MaxItems, max_results)
    IN  {[kind |-> k, n |-> 0, bad |-> 0] :
            k \in {"exception", "status", "badjson", "notok"}}
        \cup {r \in [kind : {"ok"}, n : 0..most, bad : 0..most] : r.bad <= r.n}

\* The number of articles the loop appends before it ends or raises: all n,
\* or those before the malformed one; none when categories[0] raises.
Appended(resp, mapping, categories) ==
    IF resp.kind # "ok" THEN 0
    ELSE IF item_category(mapping, categories) = None THEN 0
    ELSE IF resp.bad = 0 THEN resp.n
    ELSE resp.bad - 1

\* Whether the attempt ends in the except clause or on a status other than 200.
AttemptFails(resp, mapping, categories) ==
    \/ resp.kind \in {"exception", "status", "badjson"}
    \/ resp.kind = "ok" /\ resp.bad # 0
    \/ resp.kind = "ok" /\ resp.n > 0 /\ item_category(mapping, categories) = None

\* app.py lines 122-124: a 200 whose 'status' is not 'ok' is skipped quietly.
NewsApiFails(resp, categories) == AttemptFails(resp, category_mapping, categories)

\* app.py line 178: a 200 without data['response']['results'] raises KeyError.
GuardianFails(resp, categories) ==
    AttemptFails(resp, section_mapping, categories) \/ resp.kind = "notok"

\* app.py lines 121-144: what the NewsAPI block leaves in combined_results.
\* Each result is appended as soon as it is built, so the items before a
\* malformed article stay in the list when the except clause is entered.
NewsApiItems(resp, categories) ==
    [i \in 1..Appended(resp, category_mapping, categories) |->
        Item(i, item_category(category_mapping, categories)[1], "newsapi", -1)]

\* app.py lines 175-195: the same for the Guardian block, which reads
\* data['response']['results'] without a status field: a body that reports
\* an error has no such key and raises.
GuardianItems(resp, categories) ==
    [i \in 1..Appended(resp, section_mapping, categories) |->
        Item(i, item_category(section_mapping, categories)[1], "guardian", -1)]

\* app.py lines 213-226: the rows the similarity loop appends.
RECURSIVE SimilarityItems(_, _, _)
SimilarityItems(similar_indices, filtered_df, cos) ==
    IF similar_indices = <<>> THEN <<>>
    ELSE LET idx == Head(similar_indices)
         IN  (IF idx < Len(filtered_df)
                 THEN <<Item(filtered_df[idx + 1].article_id,
                             filtered_df[idx + 1].category, "similarity", cos[idx])>>
                 ELSE <<>>)
             \o SimilarityItems(Tail(similar_indices), filtered_df, cos)

\* app.py line 230
sample_size(max_results, filtered_df) == Min(max_results, Len(filtered_df))

\* app.py line 231: filtered_df.sample(n) draws n distinct rows in a random
\* order; with sample_size 0 the whole filtered frame is taken instead.
Samples(max_results, filtered_df) ==
    LET n == sample_size(max_results, filtered_df)
    IN  IF n > 0
        THEN {p \in [1..n -> 1..Len(filtered_df)] :
                 \A i, j \in 1..n : i # j => p[i] # p[j]}
        ELSE {[i \in 1..Len(filtered_df) |-> i]}

\* app.py lines 233-244
SampleItems(rows, filtered_df) ==
    [i \in 1..Len(rows) |->
        Item(filtered_df[rows[i]].article_id, filtered_df[rows[i]].category,
             "sample", ScoreScale \div 2)]

\* position_score without the floor of 0.5.
position_score_unfloored(i) ==
    Min((95 * ScoreScale) \div 100, (95 * ScoreScale) \div 100 - i * ((3 * ScoreScale) \div 100))

\* app.py lines 302-305: 0.95 - 0.03 * i clamped to [0.5, 0.95], i from 0.
position_score(i) ==
    Max(ScoreScale \div 2,
        Min((95 * ScoreScale) \div 100, (95 * ScoreScale) \div 100 - i * ((3 * ScoreScale) \div 100)))

Scored(results) ==
    [i \in 1..Len(results) |->
        [results[i] EXCEPT !.similarity_score = position_score(i - 1)]]

(***************************************************************************)
(* The state after load_data: the catalog is articles.csv or empty, the     *)
(* index is the pair train_model.py saved (fitted on the whole catalog) or  *)
(* a new unfitted vectorizer with no matrix; the keys are whatever the      *)
(* environment sets.                                                        *)
(***************************************************************************)
NoBody == [json |-> FALSE, interests |-> None, categories |-> None]

NoCall == [entry |-> "none", query |-> "", categories |-> <<>>, max_results |-> 0]

KwIdle ==
    /\ kw_text = <<>>
    /\ kw_max = 0
    /\ kw_out = None

\* generate_data.py is a script of its own: it does not run in the service.
GenIdle ==
    /\ gemini_model = FALSE
    /\ gen_pc = "idle"
    /\ article_id = 0
    /\ attempt = 0
    /\ quota_exceeded = FALSE
    /\ quota_at = 0
    /\ articles = <<>>

Init ==
    /\ now = 0
    /\ article_cache = [k \in {} |-> 0]
    /\ \/ articles_df = <<>> /\ tfidf_vectorizer = "unfitted" /\ tfidf_matrix = None
       \/ articles_df = Catalog /\ tfidf_vectorizer = "unfitted" /\ tfidf_matrix = None
       \/ articles_df = Catalog /\ tfidf_vectorizer = "fitted" /\ tfidf_matrix = Some(Catalog)
    /\ NEWS_API_KEY \in BOOLEAN
    /\ GUARDIAN_API_KEY \in BOOLEAN
    /\ pc = "idle"
    /\ call = NoCall
    /\ combined_results = <<>>
    /\ api_results = <<>>
    /\ attempts = <<>>
    /\ failed = {}
    /\ source = "none"
    /\ lookup_age = -1
    /\ request = NoBody
    /\ returned = None
    /\ http_status = 0
    /\ raised = FALSE
    /\ ncalls = 0
    /\ nticks = 0
    /\ KwIdle
    /\ GenIdle

config == <<articles_df, NEWS_API_KEY, GUARDIAN_API_KEY>>
index == <<tfidf_vectorizer, tfidf_matrix>>
kw == <<kw_text, kw_max, kw_out>>
gen == <<gemini_model, gen_pc, article_id, attempt, quota_exceeded, quota_at, articles>>

\* time.time() moves on between requests.  The clock is read only to stamp
\* and to age cache entries, so it starts to matter with the first entry.
Tick(d) ==
    /\ pc = "idle"
    /\ DOMAIN article_cache # {}
    /\ nticks < MaxTicks
    /\ now' = now + d
    /\ nticks' = nticks + 1
    /\ UNCHANGED <<article_cache, config, index, pc, call, combined_results,
                   api_results, attempts, failed, source, lookup_age, request,
                   returned, http_status, raised, ncalls, kw, gen>>

(***************************************************************************)
(* get_recommendations_by_interests after its call of                       *)
(* fetch_articles_from_api.                                                 *)
(***************************************************************************)
\* app.py line 340: 0.01 in units of 1/ScoreScale.
Relevant(score) == score > ScoreScale \div 100

\* app.py lines 339-353: the rows the loop appends.
RECURSIVE Recommendations(_, _, _)
Recommendations(similar_indices, filtered_df, cos) ==
    IF similar_indices = <<>> THEN <<>>
    ELSE LET idx == Head(similar_indices)
         IN  (IF Relevant(cos[idx]) /\ idx < Len(filtered_df)
                 THEN <<Item(filtered_df[idx + 1].article_id,
                             filtered_df[idx + 1].category, "content", cos[idx])>>
                 ELSE <<>>)
             \o Recommendations(Tail(similar_indices), filtered_df, cos)

\* filtered_df.iloc[idx] at line 341 raises IndexError for a relevant index
\* that is no row of filtered_df.
IlocRaises(similar_indices, filtered_df, cos) ==
    \E i \in 1..Len(similar_indices) :
        Relevant(cos[similar_indices[i]]) /\ similar_indices[i] >= Len(filtered_df)

\* The status the handler (or Flask, for an exception) answers with.
StatusOf(c, exception) ==
    IF c.entry # "endpoint" THEN 0 ELSE IF exception THEN 500 ELSE 200

\* app.py lines 309-355: content-based filtering on the local catalog, as
\* the outcomes [returned, raised, vectorizer, matrix] it can have.
ContentBased(c) ==
    LET filtered_df == isin_filter(articles_df, c.categories)
        fit == tfidf_matrix = None \/ tfidf_vectorizer = "None"
        matrix == IF fit THEN Some(filtered_df) ELSE tfidf_matrix
    IN  IF Len(articles_df) = 0 \/ Len(filtered_df) = 0
        THEN {[returned |-> Some(<<>>), raised |-> FALSE,
               vectorizer |-> tfidf_vectorizer, matrix |-> tfidf_matrix]}
        ELSE {LET cos == CosineTable[matrix[1]][c.query]
                  similar == Prefix(order, c.max_results)
              IN  IF IlocRaises(similar, filtered_df, cos)
                  THEN [returned |-> None, raised |-> TRUE,
                        vectorizer |-> "fitted", matrix |-> matrix]
                  ELSE [returned |-> Some(Recommendations(similar, filtered_df, cos)),
                        raised |-> FALSE, vectorizer |-> "fitted", matrix |-> matrix]
              : order \in OrderTable[matrix[1]][c.query]}

\* fetch_articles_from_api returns `results` (the list the cache entry of
\* `key` holds in `cache`) to get_recommendations_by_interests, which ends
\* the request: lines 299-307 write the position scores into the dicts of
\* that same list when it is not empty, lines 309-355 go on when it is.
Return(c, key, results, cache, src) ==
    /\ api_results' = results
    /\ pc' = "done"
    /\ IF results # <<>>
       THEN /\ returned' = Some(Scored(results))
            /\ article_cache' = [cache EXCEPT ![key].results = Scored(results)]
            /\ source' = src
            /\ raised' = FALSE
            /\ UNCHANGED index
       ELSE \E o \in ContentBased(c) :
            /\ returned' = o.returned
            /\ raised' = o.raised
            /\ tfidf_vectorizer' = o.vectorizer
            /\ tfidf_matrix' = o.matrix
            /\ article_cache' = cache
            /\ source' = src
    /\ http_status' = StatusOf(c, raised')

(***************************************************************************)
(* fetch_articles_from_api.  The function runs from one blocking GET to the *)
(* next: an action is the code between two of them.                         *)
(***************************************************************************)
\* Fresh with the comparison made inclusive.
FreshInclusive(t, cache_time) == t - cache_time <= CACHE_DURATION

\* app.py line 85: the entry is used while its age is under CACHE_DURATION.
Fresh(t, cache_time) == t - cache_time < CACHE_DURATION

\* app.py line 83-85
CacheHit(cache, key, t) == key \in DOMAIN cache /\ Fresh(t, cache[key].cache_time)

\* CachePut as article_cache.setdefault(key, ...): an entry is never replaced.
CachePutOnce(cache, key, t, results, c) ==
    [k \in DOMAIN cache \cup {key} |->
        IF k = key /\ key \notin DOMAIN cache
        THEN [cache_time |-> t, results |-> results,
              query |-> c.query, categories |-> c.categories]
        ELSE cache[k]]

\* app.py line 247: article_cache[key] = (time, results).  The entry also
\* keeps, as history, the arguments of the call that stored it.
CachePut(cache, key, t, results, c) ==
    [k \in DOMAIN cache \cup {key} |->
        IF k = key
        THEN [cache_time |-> t, results |-> results,
              query |-> c.query, categories |-> c.categories]
        ELSE cache[k]]

\* app.py line 92
TryNewsApi(key) == key

\* TryGuardian without the test of combined_results.
TryGuardianAnyway(results, key) == key

\* app.py line 147
TryGuardian(results, key) == results = <<>> /\ key

\* app.py line 198
TryLocal(results, df) == results = <<>> /\ Len(df) > 0

\* app.py line 204
HaveIndex == tfidf_vectorizer # "None" /\ tfidf_matrix # None

\* app.py lines 198-244: the lists the local catalog can leave in
\* combined_results, each with the source that supplied it: the similarity
\* step when the index exists, and the sample when that gave nothing.
LocalCatalog(c, src) ==
    LET filtered_df == isin_filter(articles_df, c.categories)
        orders == IF HaveIndex THEN OrderTable[tfidf_matrix[1]][c.query] ELSE {<<>>}
        similar(order) ==
            IF HaveIndex
            THEN SimilarityItems(Prefix(order, c.max_results), filtered_df,
                                 CosineTable[tfidf_matrix[1]][c.query])
            ELSE <<>>
    IN  UNION {IF similar(order) # <<>>
               THEN {[results |-> similar(order), source |-> "similarity"]}
               ELSE {[results |-> SampleItems(rows, filtered_df),
                      source |-> IF Len(rows) > 0 THEN "sample" ELSE src]
                     : rows \in Samples(c.max_results, filtered_df)}
               : order \in orders}

\* The function blocks in requests.get(url, params=params): the call is given
\* no timeout, so only the provider's answer (or a transport error) ends it.
Block(p, att, fl, src, results) ==
    /\ pc' = p
    /\ attempts' = att
    /\ failed' = fl
    /\ source' = src
    /\ combined_results' = results
    /\ UNCHANGED <<article_cache, index, api_results, returned, http_status, raised>>

\* app.py lines 197-249: the local catalog, the cache write and the return.
FromLocal(c, att, fl, src, results) ==
    /\ failed' = fl
    /\ IF TryLocal(results, articles_df)
       THEN /\ attempts' = Append(att, "local")
            /\ \E o \in LocalCatalog(c, src) :
                 /\ combined_results' = o.results
                 /\ Return(c, cache_key(c.query, c.categories), o.results,
                           CachePut(article_cache, cache_key(c.query, c.categories),
                                    now, o.results, c),
                           o.source)
       ELSE /\ attempts' = att
            /\ combined_results' = results
            /\ Return(c, cache_key(c.query, c.categories), results,
                      CachePut(article_cache, cache_key(c.query, c.categories),
                               now, results, c),
                      src)

\* app.py lines 146-175
FromGuardian(c, att, fl, src, results) ==
    IF TryGuardian(results, GUARDIAN_API_KEY)
    THEN Block("guardian_wait", Append(att, "guardian"), fl, src, results)
    ELSE FromLocal(c, att, fl, src, results)

\* app.py lines 89-121
FromNewsApi(c, att, fl, src, results) ==
    IF TryNewsApi(NEWS_API_KEY)
    THEN Block("newsapi_wait", Append(att, "newsapi"), fl, src, results)
    ELSE FromGuardian(c, att, fl, src, results)

\* app.py lines 77-121: the call, the cache lookup and, on a miss, the chain
\* up to its first blocking GET (or to its end when no GET is made).
Fetch(c, body) ==
    /\ pc = "idle"
    /\ ncalls < MaxCalls
    /\ ncalls' = ncalls + 1
    /\ call' = c
    /\ request' = body
    /\ lookup_age' = IF cache_key(c.query, c.categories) \in DOMAIN article_cache
                     THEN now - article_cache[cache_key(c.query, c.categories)].cache_time
                     ELSE -1
    /\ IF CacheHit(article_cache, cache_key(c.query, c.categories), now)
       THEN /\ attempts' = <<"cache">>
            /\ failed' = {}
            /\ combined_results' = <<>>
            /\ Return(c, cache_key(c.query, c.categories),
                      article_cache[cache_key(c.query, c.categories)].results,
                      article_cache, "cache")
       ELSE FromNewsApi(c, <<"cache">>, {}, "none", <<>>)
    /\ UNCHANGED <<now, config, nticks, kw, gen>>

\* get_recommendations_by_interests(user_interests, categories, max_results):
\* line 298 calls fetch_articles_from_api with the same arguments, and
\* api_results keeps what that call returned.
get_recommendations_by_interests(user_interests, categories, max_results) ==
    Fetch([entry |-> "recs", query |-> user_interests, categories |-> categories,
           max_results |-> max_results], NoBody)

\* app.py lines 121-146: the NewsAPI GET returns or raises.
NewsApiResponse(resp) ==
    /\ pc = "newsapi_wait"
    /\ LET results == combined_results \o NewsApiItems(resp, call.categories)
       IN  FromGuardian(call, attempts,
                        IF NewsApiFails(resp, call.categories)
                        THEN failed \cup {"newsapi"} ELSE failed,
                        IF results # <<>> THEN "newsapi" ELSE source,
                        results)
    /\ UNCHANGED <<now, config, call, lookup_age, request, ncalls, nticks, kw, gen>>

\* app.py lines 175-197: the Guardian GET returns or raises.
GuardianResponse(resp) ==
    /\ pc = "guardian_wait"
    /\ LET results == combined_results \o GuardianItems(resp, call.categories)
       IN  FromLocal(call, attempts,
                     IF GuardianFails(resp, call.categories)
                     THEN failed \cup {"guardian"} ELSE failed,
                     IF results # <<>> THEN "guardian" ELSE source,
                     results)
    /\ UNCHANGED <<now, config, call, lookup_age, request, ncalls, nticks, kw, gen>>

(***************************************************************************)
(* POST /recommend-by-interests.                                            *)
(***************************************************************************)
\* The JSON bodies: no JSON at all, or an object whose 'interests' and
\* 'categories' are each missing (None) or given.
Bodies ==
    {NoBody}
    \cup [json : {TRUE},
          interests : {None, Some("")} \cup {Some(q) : q \in Queries},
          categories : {None, Some(<<>>)} \cup {Some(c) : c \in CategoryLists}]

\* request.json.get(key, default)
JsonGet(field, default) == IF field = None THEN default ELSE field[1]

\* BodyError without the test of 'categories'.
BodyErrorNoCategories(body) ==
    IF ~body.json \/ (body.interests = None /\ body.categories = None)
        THEN "Invalid request format. JSON required."
    ELSE IF JsonGet(body.interests, "") = "" THEN "No interests provided."
    ELSE ""

\* app.py lines 366-377: the error of a body, or "" for a body that passes.
\* `not request.json` holds for no body and for the empty object.
BodyError(body) ==
    IF ~body.json \/ (body.interests = None /\ body.categories = None)
        THEN "Invalid request format. JSON required."
    ELSE IF JsonGet(body.interests, "") = "" THEN "No interests provided."
    ELSE IF JsonGet(body.categories, <<>>) = <<>> THEN "No categories selected."
    ELSE ""

\* app.py lines 363-386: the 400 answers, or the call of
\* get_recommendations_by_interests with max_results=10.
recommend_by_interests(body) ==
    IF BodyError(body) # ""
    THEN /\ pc = "idle"
         /\ ncalls < MaxCalls
         /\ ncalls' = ncalls + 1
         /\ http_status' = 400
         /\ pc' = "done"
         /\ call' = [NoCall EXCEPT !.entry = "endpoint"]
         /\ request' = body
         /\ lookup_age' = -1
         /\ UNCHANGED <<now, article_cache, config, index, combined_results,
                        api_results, attempts, failed, source, returned, raised,
                        nticks, kw, gen>>
    ELSE Fetch([entry |-> "endpoint", query |-> JsonGet(body.interests, ""),
                categories |-> JsonGet(body.categories, <<>>),
                max_results |-> EndpointMaxResults], body)

\* The request is over; the next one starts from a clean frame.
Finish ==
    /\ pc = "done"
    /\ pc' = "idle"
    /\ call' = NoCall
    /\ combined_results' = <<>>
    /\ api_results' = <<>>
    /\ attempts' = <<>>
    /\ failed' = {}
    /\ source' = "none"
    /\ lookup_age' = -1
    /\ request' = NoBody
    /\ returned' = None
    /\ http_status' = 0
    /\ raised' = FALSE
    /\ UNCHANGED <<now, article_cache, config, index, ncalls, nticks, kw, gen>>

\* A call of get_recommendations_by_interests with any arguments.
Call ==
    /\ pc = "idle"
    /\ \E q \in Queries, c \in CategoryLists, m \in 0..MaxResults :
          get_recommendations_by_interests(q, c, m)

\* A POST /recommend-by-interests with any body.
Post ==
    /\ pc = "idle"
    /\ \E body \in Bodies : recommend_by_interests(body)

Next ==
    \/ \E d \in {1, CACHE_DURATION - 1} : Tick(d)
    \/ Call
    \/ Post
    \/ \E resp \in ProviderResponses(call.max_results) : NewsApiResponse(resp)
    \/ \E resp \in ProviderResponses(call.max_results) : GuardianResponse(resp)
    \/ Finish

Spec == Init /\ [][Next]_vars

(***************************************************************************)
(* extract_keywords.  A text is the sequence of the chunks its whitespace   *)
(* separates ("" between two adjacent separators), so that the empty        *)
(* sequence is the empty text and <<"", "">> is a text of one blank.        *)
(***************************************************************************)
RawWords == {"News", "news,", "data", "tech", "With", "new", ""}

Texts == UNION {[1..n -> RawWords] : n \in 0..MaxWords}

\* app.py line 257: re.sub(r'[^\w\s]', '', text.lower()), chunk by chunk.
Normalise(chunk) ==
    CASE chunk = "News" -> "news"
      [] chunk = "news," -> "news"
      [] chunk = "With" -> "with"
      [] OTHER -> chunk

\* app.py line 260: text.split() keeps the chunks that are not empty.
RECURSIVE split(_)
split(chunks) ==
    IF chunks = <<>> THEN <<>>
    ELSE (IF Normalise(Head(chunks)) = "" THEN <<>> ELSE <<Normalise(Head(chunks))>>)
         \o split(Tail(chunks))

\* app.py lines 263-270
stop_words ==
    {"the", "a", "an", "and", "or", "but", "is", "are", "was", "were",
     "be", "been", "being", "in", "on", "at", "by", "for", "with", "about",
     "against", "between", "into", "through", "during", "before", "after",
     "above", "below", "to", "from", "up", "down", "of", "off", "over", "under",
     "again", "further", "then", "once", "here", "there", "when", "where", "why",
     "how", "all", "any", "both", "each", "few", "more", "most", "other", "some",
     "such", "no", "nor", "not", "only", "own", "same", "so", "than", "too", "very",
     "can", "will", "just", "should", "now"}

\* KeepWord with the length test off by one.
KeepWordLoose(word) == word \notin stop_words /\ Len(word) >= 3

\* app.py line 272
KeepWord(word) == word \notin stop_words /\ Len(word) > 3

RECURSIVE filter_words(_)
filter_words(words) ==
    IF words = <<>> THEN <<>>
    ELSE (IF KeepWord(Head(words)) THEN <<Head(words)>> ELSE <<>>)
         \o filter_words(Tail(words))

\* app.py lines 275-277: word_freq.items(), a dict in insertion order.
RECURSIVE word_freq(_, _)
word_freq(words, items) ==
    IF words = <<>> THEN items
    ELSE LET w == Head(words)
             at == {i \in 1..Len(items) : items[i][1] = w}
         IN  word_freq(Tail(words),
                IF at = {} THEN Append(items, <<w, 1>>)
                ELSE [i \in 1..Len(items) |->
                        IF i \in at THEN <<w, items[i][2] + 1>> ELSE items[i]])

\* app.py line 280: sorted(items, key=count, reverse=True) is stable: an item
\* goes after the items whose count is not smaller.
RECURSIVE InsertByCount(_, _)
InsertByCount(item, s) ==
    IF s = <<>> THEN <<item>>
    ELSE IF item[2] > Head(s)[2] THEN <<item>> \o s
    ELSE <<Head(s)>> \o InsertByCount(item, Tail(s))

RECURSIVE sorted_words(_)
sorted_words(items) ==
    IF items = <<>> THEN <<>>
    ELSE InsertByCount(items[Len(items)],
                       sorted_words(SubSeq(items, 1, Len(items) - 1)))

\* app.py lines 251-283
extract_keywords(text, max_keywords) ==
    IF text = <<>> THEN <<>>
    ELSE LET sorted_items == sorted_words(word_freq(filter_words(split(text)), <<>>))
         IN  [i \in 1..Min(max_keywords, Len(sorted_items)) |-> sorted_items[i][1]]

\* The inputs of extract_keywords, with the service at rest.
KwInit ==
    /\ now = 0
    /\ article_cache = [k \in {} |-> 0]
    /\ articles_df = Catalog
    /\ tfidf_vectorizer = "unfitted"
    /\ tfidf_matrix = None
    /\ NEWS_API_KEY = TRUE
    /\ GUARDIAN_API_KEY = TRUE
    /\ pc = "idle"
    /\ call = NoCall
    /\ combined_results = <<>>
    /\ api_results = <<>>
    /\ attempts = <<>>
    /\ failed = {}
    /\ source = "none"
    /\ lookup_age = -1
    /\ request = NoBody
    /\ returned = None
    /\ http_status = 0
    /\ raised = FALSE
    /\ ncalls = 0
    /\ nticks = 0
    /\ kw_text \in Texts
    /\ kw_max \in 0..MaxKeywords
    /\ kw_out = None
    /\ GenIdle

\* keywords = extract_keywords(text, max_keywords)
ExtractKeywords ==
    /\ kw_out = None
    /\ kw_out' = Some(extract_keywords(kw_text, kw_max))
    /\ UNCHANGED <<now, article_cache, config, index, pc, call, combined_results,
                   api_results, attempts, failed, source, lookup_age, request,
                   returned, http_status, raised, ncalls, nticks, kw_text, kw_max,
                   gen>>

KwNext == ExtractKeywords

KwSpec == KwInit /\ [][KwNext]_vars

(***************************************************************************)
(* The scoring loop of get_recommendations_by_interests (lines 299-307) on  *)
(* its own, for provider results of every length up to MaxListLen: the      *)
(* state is the one in which fetch_articles_from_api has just returned.     *)
(***************************************************************************)
ProviderLists ==
    {[i \in 1..n |-> Item(i, cat, src, -1)] :
        n \in 1..MaxListLen, cat \in {"Technology", "Science", "Sports"},
        src \in {"newsapi", "guardian"}}

ScoreInit ==
    /\ now = 0
    /\ article_cache = [k \in {} |-> 0]
    /\ articles_df = <<>>
    /\ tfidf_vectorizer = "unfitted"
    /\ tfidf_matrix = None
    /\ NEWS_API_KEY = TRUE
    /\ GUARDIAN_API_KEY = TRUE
    /\ pc = "scoring"
    /\ call = NoCall
    /\ combined_results = <<>>
    /\ api_results \in ProviderLists
    /\ attempts = <<>>
    /\ failed = {}
    /\ source = api_results[1].source
    /\ lookup_age = -1
    /\ request = NoBody
    /\ returned = None
    /\ http_status = 0
    /\ raised = FALSE
    /\ ncalls = 0
    /\ nticks = 0
    /\ KwIdle
    /\ GenIdle

\* app.py lines 299-307
ScoreResults ==
    /\ pc = "scoring"
    /\ api_results # <<>>
    /\ returned' = Some(Scored(api_results))
    /\ pc' = "done"
    /\ UNCHANGED <<now, article_cache, config, index, call, combined_results,
                   api_results, attempts, failed, source, lookup_age, request,
                   http_status, raised, ncalls, nticks, kw, gen>>

ScoreNext == ScoreResults

ScoreSpec == ScoreInit /\ [][ScoreNext]_vars

\* The provider may never answer, the next request may never come; the
\* process itself always goes on to answer a request it has finished.
FairSpec == Spec /\ WF_vars(Finish)

(***************************************************************************)
(* generate_data.py: generate_articles and its calls of Gemini.  The state  *)
(* of the service is not touched.                                           *)
(***************************************************************************)
service == <<now, article_cache, config, index, pc, call, combined_results,
             api_results, attempts, failed, source, lookup_age, request,
             returned, http_status, raised, ncalls, nticks, kw>>

\* What gemini_model.generate_content can do: return a text holding JSON
\* with a title and keywords ("json"), JSON with an empty title and no
\* keywords ("empty"), a text without usable JSON ("garbage"); raise the 429
\* quota error ("quota") or another exception ("error").
GeminiOutcomes == {"json", "empty", "garbage", "quota", "error"}

\* generate_data.py lines 165-176, with the module-level gemini_model of
\* line 42: the run is at the top of its loop, before the first article.
GenInit ==
    /\ now = 0
    /\ article_cache = [k \in {} |-> 0]
    /\ articles_df = <<>>
    /\ tfidf_vectorizer = "unfitted"
    /\ tfidf_matrix = None
    /\ NEWS_API_KEY = FALSE
    /\ GUARDIAN_API_KEY = FALSE
    /\ pc = "idle"
    /\ call = NoCall
    /\ combined_results = <<>>
    /\ api_results = <<>>
    /\ attempts = <<>>
    /\ failed = {}
    /\ source = "none"
    /\ lookup_age = -1
    /\ request = NoBody
    /\ returned = None
    /\ http_status = 0
    /\ raised = FALSE
    /\ ncalls = 0
    /\ nticks = 0
    /\ KwIdle
    /\ gemini_model \in BOOLEAN
    /\ gen_pc = "loop"
    /\ article_id = 1
    /\ attempt = 0
    /\ quota_exceeded = FALSE
    /\ quota_at = 0
    /\ articles = <<>>

\* generate_data.py lines 197-203 and the next turn of the loop: the article
\* is appended with the title and keywords `by` produced.
AppendArticle(by) ==
    /\ articles' = Append(articles, by)
    /\ article_id' = article_id + 1
    /\ gen_pc' = "loop"

\* generate_data.py lines 178-195 up to the Gemini call of line 61: line 185
\* decides between generate_article_data_with_gemini, which enters
\* generate_content_with_gemini (line 56 passes: the model exists) and its
\* first attempt, and the fallback generators.
NextArticle ==
    /\ gen_pc = "loop"
    /\ article_id <= NumArticles
    /\ IF gemini_model /\ ~quota_exceeded
       THEN /\ gen_pc' = "call"
            /\ attempt' = 0
            /\ UNCHANGED <<article_id, articles>>
       ELSE /\ AppendArticle("fallback")
            /\ UNCHANGED attempt
    /\ UNCHANGED <<gemini_model, quota_exceeded, quota_at, service>>

\* generate_data.py lines 61-86, 111-136 and 186-192: the Gemini call of the
\* attempt ends with `outcome`.
GeminiAnswers(outcome) ==
    /\ gen_pc = "call"
    /\ CASE outcome = "json" ->
              \* line 69, 130: title and keywords come from Gemini
              /\ AppendArticle("gemini")
              /\ UNCHANGED <<attempt, quota_exceeded, quota_at>>
         [] outcome = "empty" ->
              \* line 130 returns ("", ""); lines 188-192 set the flag
              /\ quota_exceeded' = TRUE
              /\ AppendArticle("fallback")
              /\ UNCHANGED <<attempt, quota_at>>
         [] outcome = "garbage" ->
              \* lines 120, 131-136: generate_article_data_with_gemini falls back
              /\ AppendArticle("fallback")
              /\ UNCHANGED <<attempt, quota_exceeded, quota_at>>
         [] outcome = "quota" ->
              \* line 76 returns None; line 113 fails, line 136 returns the
              \* fallback title and keywords, neither empty: line 188 is false
              /\ quota_at' = IF quota_at = 0 THEN article_id ELSE quota_at
              /\ AppendArticle("fallback")
              /\ UNCHANGED <<attempt, quota_exceeded>>
         [] outcome = "error" ->
              IF attempt < RetryCount - 1
              THEN \* lines 79-83: sleep, then the next attempt's call
                   /\ attempt' = attempt + 1
                   /\ UNCHANGED <<gen_pc, article_id, articles, quota_exceeded, quota_at>>
              ELSE \* line 86 returns None; line 136 as above
                   /\ AppendArticle("fallback")
                   /\ UNCHANGED <<attempt, quota_exceeded, quota_at>>
    /\ UNCHANGED <<gemini_model, service>>

\* generate_data.py line 205
GenReturn ==
    /\ gen_pc = "loop"
    /\ article_id > NumArticles
    /\ gen_pc' = "end"
    /\ UNCHANGED <<gemini_model, article_id, attempt, quota_exceeded, quota_at,
                   articles, service>>

GenNext ==
    \/ NextArticle
    \/ \E outcome \in GeminiOutcomes : GeminiAnswers(outcome)
    \/ GenReturn

GenSpec == GenInit /\ [][GenNext]_vars

(***************************************************************************)
(* Properties.                                                              *)
(***************************************************************************)
Attempted(src) == src \in Range(attempts)

\* The cache entry of the key of the request being served.
Entry == article_cache[cache_key(call.query, call.categories)]

\* The same dicts in the same order, whatever scores were written into them.
SameArticles(a, b) ==
    /\ Len(a) = Len(b)
    /\ \A i \in 1..Len(a) :
        /\ a[i].article_id = b[i].article_id
        /\ a[i].category = b[i].category
        /\ a[i].source = b[i].source

\* C1: with a provider configured, a lookup that finds an entry younger than
\* the TTL ends the call with the stored list, the entry untouched and no
\* provider called; a lookup that finds an entry older than the TTL calls a
\* provider, and at the return the entry holds the returned list and the
\* current time.
C1_CacheContract ==
    /\ (pc # "idle" /\ lookup_age >= 0 /\ lookup_age < CACHE_DURATION)
        => /\ pc = "done"
           /\ ~Attempted("newsapi") /\ ~Attempted("guardian")
           /\ SameArticles(api_results, Entry.results)
           /\ Entry.cache_time = now - lookup_age
    /\ (pc # "idle" /\ lookup_age > CACHE_DURATION /\ (NEWS_API_KEY \/ GUARDIAN_API_KEY))
        => /\ Attempted("newsapi") \/ Attempted("guardian")
           /\ pc = "done" => /\ Entry.cache_time = now
                             /\ SameArticles(Entry.results, api_results)

C1_Witness ==
    /\ pc = "done"
    /\ lookup_age > CACHE_DURATION
    /\ Attempted("guardian")
    /\ api_results # <<>>
    /\ Entry.cache_time = now

SourceRank(src) ==
    CASE src = "cache" -> 1 [] src = "newsapi" -> 2 [] src = "guardian" -> 3
      [] src = "local" -> 4

\* C2: the sources of a call are attempted in the order cache, NewsAPI,
\* Guardian, local catalog; Guardian only when NewsAPI left no item in
\* combined_results, the local catalog only when neither provider did.
C2_Order ==
    /\ \A i, j \in 1..Len(attempts) :
          i < j => SourceRank(attempts[i]) < SourceRank(attempts[j])
    /\ attempts # <<>> => attempts[1] = "cache"
    /\ Attempted("guardian") =>
          \A i \in 1..Len(combined_results) : combined_results[i].source # "newsapi"
    /\ Attempted("local") =>
          \A i \in 1..Len(combined_results) :
              combined_results[i].source \notin {"newsapi", "guardian"}

C2_Witness ==
    /\ pc = "done"
    /\ attempts = <<"cache", "newsapi", "guardian", "local">>
    /\ source = "sample"

\* The source after provider p was attempted, when there is one to attempt.
NextTried(p) ==
    IF p = "newsapi" /\ GUARDIAN_API_KEY THEN Attempted("guardian")
    ELSE Len(articles_df) > 0 => Attempted("local")

\* C3: a provider attempt that fails raises nothing to the caller, leaves no
\* item of that provider in the result, and is followed by an attempt of the
\* next source.
C3_FailureIsEmpty ==
    pc = "done" =>
        \A p \in failed :
            /\ ~raised
            /\ \A i \in 1..Len(combined_results) : combined_results[i].source # p
            /\ NextTried(p)

\* C4: every call returns at most max_results items, from
\* fetch_articles_from_api and from get_recommendations_by_interests.
C4_AtMostMaxResults ==
    (pc = "done" /\ returned # None) =>
        /\ Len(api_results) <= call.max_results
        /\ Len(returned[1]) <= call.max_results

\* What the claim calls a malformed body.
InvalidBody(body) ==
    \/ ~body.json
    \/ body.interests \in {None, Some("")}
    \/ body.categories \in {None, Some(<<>>)}

\* C5: a POST whose body is absent, or lacks interests or categories (or
\* gives them empty), is answered 400 at once: no source is attempted and the
\* cache and the index stay as they were.
C5_Rejects ==
    [][(pc = "idle" /\ call'.entry = "endpoint" /\ InvalidBody(request'))
        => /\ http_status' = 400
           /\ pc' = "done"
           /\ attempts' = <<>>
           /\ article_cache' = article_cache
           /\ tfidf_vectorizer' = tfidf_vectorizer
           /\ tfidf_matrix' = tfidf_matrix]_vars

C5_Witness ==
    /\ pc = "done"
    /\ http_status = 400
    /\ request.json
    /\ request.interests = Some("ai research")
    /\ request.categories = Some(<<>>)
    /\ DOMAIN article_cache # {}

\* The words of the text after lower-casing and the removal of punctuation.
KwWords == [i \in 1..Len(kw_text) |-> Normalise(kw_text[i])]

KwKept == {w \in Range(KwWords) : w # "" /\ w \notin stop_words /\ Len(w) > 3}

KwCount(w) == Cardinality({i \in 1..Len(KwWords) : KwWords[i] = w})

KwFirst(w) == CHOOSE i \in 1..Len(KwWords) :
                 KwWords[i] = w /\ \A j \in 1..Len(KwWords) : KwWords[j] = w => i <= j

\* a comes before b: more occurrences, or as many and an earlier first one.
KwBefore(a, b) ==
    \/ KwCount(a) > KwCount(b)
    \/ KwCount(a) = KwCount(b) /\ KwFirst(a) < KwFirst(b)

\* C6: extract_keywords returns the first max_keywords of the distinct words
\* that are no stop-word and longer than 3 characters, most frequent first
\* and, among equally frequent ones, in the order of first occurrence.
C6_Keywords ==
    kw_out # None =>
        LET out == kw_out[1]
        IN  /\ Len(out) = Min(kw_max, Cardinality(KwKept))
            /\ \A i \in 1..Len(out) : out[i] \in KwKept
            /\ \A i, j \in 1..Len(out) : i < j => KwBefore(out[i], out[j])
            /\ \A w \in KwKept \ Range(out) : \A i \in 1..Len(out) : KwBefore(out[i], w)

C6_Witness ==
    /\ kw_text = <<"With", "data", "news,", "new">>
    /\ kw_max = 1
    /\ kw_out = Some(<<"data">>)

\* C7 as claimed: an entry is a hit up to and including the age of
\* CACHE_DURATION, and a miss only beyond it.
C7_HitAtTtl ==
    (pc # "idle" /\ lookup_age >= 0) =>
        ((lookup_age <= CACHE_DURATION) <=> (source = "cache"))

\* C7, amended: an entry is a hit while its age is under CACHE_DURATION; from
\* the age of CACHE_DURATION on (exactly 3600 s included) the lookup is a miss
\* and the return overwrites the entry.
C7_HitUnderTtl ==
    (pc # "idle" /\ lookup_age >= 0) =>
        /\ (lookup_age < CACHE_DURATION) <=> (source = "cache")
        /\ (pc = "done" /\ lookup_age >= CACHE_DURATION) => Entry.cache_time = now
        /\ (pc = "done" /\ lookup_age < CACHE_DURATION) =>
              Entry.cache_time = now - lookup_age

C7_Witness ==
    /\ pc = "done"
    /\ lookup_age = CACHE_DURATION
    /\ source # "cache"
    /\ Entry.cache_time = now

\* C8: a call that returns the empty list has attempted every source that is
\* available: each provider with a key, and the catalog when it has rows.
C8_EmptyMeansAllTried ==
    (pc = "done" /\ Attempted("cache") /\ api_results = <<>>) =>
        /\ NEWS_API_KEY => Attempted("newsapi")
        /\ GUARDIAN_API_KEY => Attempted("guardian")
        /\ Len(articles_df) > 0 => Attempted("local")

\* C9: a request is served from the cache only an entry that a request with
\* the same query and the same set of categories stored.
C9_SameKeySameRequest ==
    (pc = "done" /\ source = "cache") =>
        /\ Entry.query = call.query
        /\ Range(Entry.categories) = Range(call.categories)

\* C10: a request blocked in a provider's GET goes on to complete, whether
\* or not the provider ever answers.
C10_Completes ==
    [](pc \in {"newsapi_wait", "guardian_wait"} => <>(pc = "done"))

\* The cosine similarity of the query of the request and the index row of
\* article `id`, in an index over the whole catalog (row = article_id - 1).
OwnScore(id) == CosineTable[Catalog][call.query][id - 1]

\* C11: with an index over the whole catalog, the local similarity step
\* returns the top max_results items by cosine similarity among the catalog
\* items of the requested categories, each with the cosine similarity of its
\* own index row as similarity_score.
C11_TopOfRequestedCategories ==
    (pc = "done" /\ source = "similarity" /\ tfidf_matrix = Some(Catalog)) =>
        LET filtered_df == isin_filter(articles_df, call.categories)
            ids == {api_results[i].article_id : i \in 1..Len(api_results)}
        IN  /\ Len(api_results) = Min(call.max_results, Len(filtered_df))
            /\ \A i \in 1..Len(api_results) :
                  /\ api_results[i].category \in Range(call.categories)
                  /\ api_results[i].similarity_score = OwnScore(api_results[i].article_id)
            /\ \A i, j \in 1..Len(api_results) :
                  i < j => OwnScore(api_results[i].article_id)
                              >= OwnScore(api_results[j].article_id)
            /\ \A r \in 1..Len(filtered_df) : \A id \in ids :
                  filtered_df[r].article_id \notin ids
                      => OwnScore(filtered_df[r].article_id) <= OwnScore(id)

\* The similarity step of the request finds nothing in the index it has.
SimilarityFindsNothing ==
    /\ HaveIndex
    /\ \E order \in OrderTable[tfidf_matrix[1]][call.query] :
          SimilarityItems(Prefix(order, call.max_results),
                          isin_filter(articles_df, call.categories),
                          CosineTable[tfidf_matrix[1]][call.query]) = <<>>

\* C12: a request that reaches the local catalog and finds rows of the
\* requested categories leaves an index behind (it fits one on those rows
\* when there was none), and takes the random sample only when the
\* similarity search found nothing.
C12_FitsBeforeSampling ==
    (pc = "done" /\ Attempted("local")
        /\ isin_filter(articles_df, call.categories) # <<>>) =>
        /\ tfidf_matrix # None
        /\ source = "sample" => SimilarityFindsNothing

\* C13: a result that comes from the sample of the local catalog has
\* min(max_results, rows of the requested categories) items, each with the
\* default score 0.5 in the list get_recommendations_by_interests returns.
C13_SampleSizeAndScore ==
    (pc = "done" /\ source = "sample" /\ returned # None) =>
        /\ Len(returned[1])
              = Min(call.max_results, Len(isin_filter(articles_df, call.categories)))
        /\ \A i \in 1..Len(returned[1]) :
              returned[1][i].similarity_score = ScoreScale \div 2

\* The score of the claim for 0-based position i, in hundredths.
Hundredths(i) == Max(50, Min(95, 95 - 3 * i))

\* C14: in a non-empty provider result that get_recommendations_by_interests
\* returns, the item at 0-based position i has the score
\* max(0.50, min(0.95, 0.95 - 0.03 * i)): 0.95 first, never increasing with
\* the position, always within [0.50, 0.95]; the items are otherwise those
\* fetch_articles_from_api returned, in their order.
C14_PositionScores ==
    (pc = "done" /\ returned # None /\ source \in {"newsapi", "guardian"}) =>
        LET out == returned[1]
        IN  /\ SameArticles(out, api_results)
            /\ \A i \in 1..Len(out) :
                  /\ out[i].similarity_score * 100 = Hundredths(i - 1) * ScoreScale
                  /\ out[i].similarity_score * 100 >= 50 * ScoreScale
                  /\ out[i].similarity_score * 100 <= 95 * ScoreScale
            /\ out # <<>> => out[1].similarity_score * 100 = 95 * ScoreScale
            /\ \A i, j \in 1..Len(out) :
                  i < j => out[i].similarity_score >= out[j].similarity_score

C14_Witness ==
    /\ pc = "done"
    /\ source = "guardian"
    /\ returned # None
    /\ Len(returned[1]) >= 17
    /\ returned[1][2].similarity_score * 100 = 92 * ScoreScale
    /\ returned[1][16].similarity_score * 100 = 50 * ScoreScale
    /\ returned[1][17].similarity_score * 100 = 50 * ScoreScale

\* C15: once a Gemini call has failed with the quota error, no Gemini call
\* is made again in the run, neither as a retry nor for a later article, and
\* the article of the failure and all after it come from the fallback
\* generators.
C15_QuotaEndsGemini ==
    quota_at > 0 =>
        /\ gen_pc # "call"
        /\ \A i \in quota_at..Len(articles) : articles[i] = "fallback"

====
